---- MODULE Spec2Model ----
(***************************************************************************)
(* Skill management API: a gin HTTP server whose handlers map one request  *)
(* onto one SQL statement against the table "skill".                       *)
(*                                                                         *)
(* The repository holds incremental versions of the server.  The handlers  *)
(* of src/server.go and of src/unnamed/part_002 are identical except for   *)
(* getSkillsHandler and updateSkill; the model has one action per handler  *)
(* and a second action where the two versions differ (suffix _server for   *)
(* src/server.go).  All versions work on the same table.                   *)
(*                                                                         *)
(* Every handler issues exactly one statement, so a handler is one atomic  *)
(* step on the table.                                                      *)
(*                                                                         *)
(* Three specifications share the variables:                               *)
(*   Spec      the exchanges of a client that sends one request at a time; *)
(*   ConcSpec  the handlers of several connections, their steps            *)
(*             interleaved, on a table kept as a set of rows;              *)
(*   MainSpec  func main and its shutdown goroutine, from the call of      *)
(*             srv.ListenAndServe to the return of main.                   *)
(***************************************************************************)
EXTENDS Integers, Sequences, FiniteSets, TLC

\* ---------------------------------------------------------------- bounds

\* Longest tag list a request body or a row carries.
MaxTags == 1

\* Text values: "" is Go's zero value of string, "a" any other text.
Text == {"", "a"}
TagText == {"a"}

\* Tag lists as rows and JSON arrays hold them.
TagLists == UNION {[1..n -> TagText] : n \in 0..MaxTags}

\* Keys a request body can carry ("" when the body has no key), and keys a
\* path parameter can carry: gin's ":key" never matches the empty segment.
Keys == {"", "go"}
PathKeys == Keys \ {""}

\* ------------------------------------------------------------ Go values

\* A Go slice: the nil slice is distinct from the empty slice.
NilSlice == [isNil |-> TRUE, elems |-> <<>>]
Slice(s) == [isNil |-> FALSE, elems |-> s]

\* var skill Skill
ZeroSkill == [key |-> "", name |-> "", description |-> "", logo |-> "",
              tags |-> NilSlice]

\* ---------------------------------------------------------------- JSON

\* A field of a request body: absent (or null), of the wrong JSON type, or a
\* value of the right type.
JsonKey == {[t |-> "absent", v |-> ""], [t |-> "bad", v |-> ""]}
             \cup {[t |-> "val", v |-> k] : k \in PathKeys}
JsonText == {[t |-> "absent", v |-> ""], [t |-> "bad", v |-> ""]}
             \cup {[t |-> "val", v |-> x] : x \in Text \ {""}}
JsonTags == {[t |-> "absent", v |-> <<>>], [t |-> "bad", v |-> <<>>]}
             \cup {[t |-> "val", v |-> s] : s \in TagLists}

DocFields == {"key", "name", "description", "logo", "tags"}
NumBad(d) == Cardinality({f \in DocFields : d[f].t = "bad"})
NumAbsent(d) == Cardinality({f \in DocFields : d[f].t = "absent"})

\* Request bodies: a body that is not JSON at all (syntax), an object whose
\* fields are absent or well typed, or a complete object with one field of
\* the wrong type.
Docs == {d \in [syntax : BOOLEAN, key : JsonKey, name : JsonText,
                description : JsonText, logo : JsonText, tags : JsonTags] :
           /\ NumBad(d) <= 1
           /\ NumBad(d) = 1 => NumAbsent(d) = 0
           /\ d.syntax => NumAbsent(d) = 5}

\* Bodies of a single-field update: the field, with or without a key, or a
\* body that is not JSON.
FieldDocs(f) == {d \in [syntax : BOOLEAN, key : JsonKey, name : JsonText,
                        description : JsonText, logo : JsonText, tags : JsonTags] :
                   /\ d.key.t # "bad"
                   /\ \A g \in DocFields \ {f, "key"} : d[g].t = "absent"
                   /\ d.syntax => NumAbsent(d) = 5}

\* The requests tried on a route: every body of docs while the store answers,
\* and the bodies without absent or ill-typed field among fields, or that are
\* not JSON, while the store fails (up = FALSE).
Inputs(docs, fields) ==
  (docs \X {TRUE})
    \cup ({d \in docs : d.syntax \/ \A f \in fields : d[f].t = "val"} \X {FALSE})

\* encoding/json into a Skill: a syntax error leaves the struct untouched; a
\* field of the wrong type is skipped and reported, the other fields are
\* still stored; an absent or null field keeps the zero value.
Unmarshal(d) ==
  [err   |-> d.syntax \/ NumBad(d) > 0,
   skill |-> [key         |-> IF d.key.t = "val" THEN d.key.v ELSE "",
              name        |-> IF d.name.t = "val" THEN d.name.v ELSE "",
              description |-> IF d.description.t = "val" THEN d.description.v ELSE "",
              logo        |-> IF d.logo.t = "val" THEN d.logo.v ELSE "",
              tags        |-> IF d.tags.t = "val" THEN Slice(d.tags.v) ELSE NilSlice]]

\* ------------------------------------------------------ gin response writer

\* What the client receives: the status line and the JSON body.
\* kind: "empty" (no body), "message" (Response), "skill" (SkillResponse),
\* "skills" (GetSkillsResponse), "bare" (a Skill without envelope).
\* data: the Skill values of the body, as a Go slice (nil renders as null).
Writer0 == [written |-> FALSE, code |-> 200, kind |-> "empty", status |-> "",
            message |-> "", data |-> NilSlice]

\* c.BindJSON on failure: AbortWithError(400, err) writes the header at once.
AbortWithError(w, code) == [w EXCEPT !.written = TRUE, !.code = code]

\* c.JSON(code, obj): the status is set unless the header is already written;
\* the body is written in any case.
WriteJSON(w, code, kind, status, message, data) ==
  [written |-> TRUE,
   code    |-> IF w.written THEN w.code ELSE code,
   kind    |-> kind, status |-> status, message |-> message, data |-> data]

\* ctx.BindJSON(&skill)
BindJSON(w, d) ==
  LET u == Unmarshal(d)
  IN  [err |-> u.err, skill |-> u.skill,
       w   |-> IF u.err THEN AbortWithError(w, 400) ELSE w]

\* ---------------------------------------------------------------- store

\* CREATE TABLE skill: key TEXT PRIMARY KEY, the other columns NOT NULL.
Rows == [name : Text, description : Text, logo : Text, tags : TagLists]

\* pq.Array(skill.Tags) as a statement argument: a nil slice is sent as NULL.
ArrayValue(s) == [null |-> s.isNil, arr |-> s.elems]

\* row.Scan(&skill.Key, ..., pq.Array(&skill.Tags)): the scanned slice is not nil.
ScanRow(k, r) == [key |-> k, name |-> r.name, description |-> r.description,
                  logo |-> r.logo, tags |-> Slice(r.tags)]

\* store: the table skill, a function from the keys present to their rows.
\* last:  the exchange being answered: the request and the response written.
\* track: the latest create, full update or delete answered 200 on a path key
\*        and the record its body submitted, kept until the next write request
\*        on that key (history for "a following GET").
VARIABLES store, last, track

\* The process of func main and of its shutdown goroutine.
\* mainPc:      where main is: "ListenAndServe" (about to listen), "Serve" (in
\*              the accept loop), "closedChan" (at <-closedChan), "returned".
\* goPc:        where the goroutine is: "ctxDone" (at <-ctx.Done()), "Shutdown"
\*              (in srv.Shutdown), "close" (at close(closedChan)), "done".
\* signalled:   SIGINT or SIGTERM has been delivered (ctx is done).
\* srv:         the http.Server: its listener, inShutdown, and the number of
\*              requests in flight.
\* elapsed:     seconds since context.WithTimeout started the deadline.
\* shutdownErr: what srv.Shutdown returned: "none" (not yet), "nil", "deadline".
\* closedChan:  closedChan is closed.
\* dbOpen:      DB.Close has not run.
VARIABLES mainPc, goPc, signalled, srv, elapsed, shutdownErr, closedChan, dbOpen

mainVars == <<mainPc, goPc, signalled, srv, elapsed, shutdownErr, closedChan, dbOpen>>

\* Requests served concurrently, one goroutine per connection.
\* table: the table skill as the store holds it, a set of rows.
\* conns: the request each connection is serving, if any.
\* base:  the table at the last moment without a request in flight (history).
\* clean: every request accepted since that moment is still held by its
\*        connection (history).
VARIABLES table, conns, base, clean

concVars == <<table, conns, base, clean>>

apiVars == <<store, last, track>>

vars == <<store, last, track, mainVars, concVars>>

Put(st, k, r) == [x \in DOMAIN st \cup {k} |-> IF x = k THEN r ELSE st[x]]
Remove(st, k) == [x \in DOMAIN st \ {k} |-> st[x]]

\* QueryRow(...).Scan(...) that returns an error: no row, the table untouched.
Failed(st) == [err |-> TRUE, skill |-> ZeroSkill, store |-> st]

\* Insert with $2 and $3 bound the wrong way round.
Insert_swapped(st, up, s) ==
  IF ~up \/ ArrayValue(s.tags).null \/ s.key \in DOMAIN st
  THEN Failed(st)
  ELSE LET r == [name |-> s.description, description |-> s.name,
                 logo |-> s.logo, tags |-> ArrayValue(s.tags).arr]
       IN  [err |-> FALSE, skill |-> ScanRow(s.key, r), store |-> Put(st, s.key, r)]

\* Insert as an upsert (ON CONFLICT (key) DO UPDATE).
Insert_upsert(st, up, s) ==
  IF ~up \/ ArrayValue(s.tags).null
  THEN Failed(st)
  ELSE LET r == [name |-> s.name, description |-> s.description,
                 logo |-> s.logo, tags |-> ArrayValue(s.tags).arr]
       IN  [err |-> FALSE, skill |-> ScanRow(s.key, r), store |-> Put(st, s.key, r)]

\* INSERT INTO skill (key, name, description, logo, tags) VALUES ($1..$5) RETURNING ...
Insert(st, up, s) ==
  IF ~up \/ ArrayValue(s.tags).null \/ s.key \in DOMAIN st
  THEN Failed(st)
  ELSE LET r == [name |-> s.name, description |-> s.description,
                 logo |-> s.logo, tags |-> ArrayValue(s.tags).arr]
       IN  [err |-> FALSE, skill |-> ScanRow(s.key, r), store |-> Put(st, s.key, r)]

\* Select whose Scan error is lost: an absent key yields the zero Skill.
Select_noerr(st, up, k) ==
  IF ~up \/ k \notin DOMAIN st
  THEN [err |-> FALSE, skill |-> ZeroSkill, store |-> st]
  ELSE [err |-> FALSE, skill |-> ScanRow(k, st[k]), store |-> st]

\* SELECT key, name, description, logo, tags FROM skill where key=$1
Select(st, up, k) ==
  IF ~up \/ k \notin DOMAIN st
  THEN Failed(st)
  ELSE [err |-> FALSE, skill |-> ScanRow(k, st[k]), store |-> st]

\* Delete that reports no error when no row has the key.
Delete_noerr(st, up, k) ==
  IF ~up
  THEN Failed(st)
  ELSE IF k \notin DOMAIN st
       THEN [err |-> FALSE, skill |-> ZeroSkill, store |-> st]
       ELSE [err |-> FALSE, skill |-> ScanRow(k, st[k]), store |-> Remove(st, k)]

\* Delete that returns the row and leaves it in the table.
Delete_kept(st, up, k) ==
  IF ~up \/ k \notin DOMAIN st
  THEN Failed(st)
  ELSE [err |-> FALSE, skill |-> ScanRow(k, st[k]), store |-> st]

\* DELETE FROM skill WHERE key=$1 RETURNING ...
Delete(st, up, k) ==
  IF ~up \/ k \notin DOMAIN st
  THEN Failed(st)
  ELSE [err |-> FALSE, skill |-> ScanRow(k, st[k]), store |-> Remove(st, k)]

\* SET clauses where a single-field statement also sets logo.
UpdateRow_wide(r, s, field) ==
  CASE field = "all"         -> [name |-> s.name, description |-> s.description,
                                 logo |-> s.logo, tags |-> ArrayValue(s.tags).arr]
    [] field = "name"        -> [r EXCEPT !.name = s.name, !.logo = s.logo]
    [] field = "description" -> [r EXCEPT !.description = s.description, !.logo = s.logo]
    [] field = "logo"        -> [r EXCEPT !.logo = s.logo]
    [] field = "tags"        -> [r EXCEPT !.tags = ArrayValue(s.tags).arr, !.logo = s.logo]

\* The SET clause of the five UPDATE statements.
UpdateRow(r, s, field) ==
  CASE field = "all"         -> [name |-> s.name, description |-> s.description,
                                 logo |-> s.logo, tags |-> ArrayValue(s.tags).arr]
    [] field = "name"        -> [r EXCEPT !.name = s.name]
    [] field = "description" -> [r EXCEPT !.description = s.description]
    [] field = "logo"        -> [r EXCEPT !.logo = s.logo]
    [] field = "tags"        -> [r EXCEPT !.tags = ArrayValue(s.tags).arr]

\* Update that also sets the key column, to the key of the request body.
Update_rekey(st, up, s, field) ==
  IF \/ ~up
     \/ s.key \notin DOMAIN st
     \/ (field \in {"all", "tags"} /\ ArrayValue(s.tags).null)
  THEN Failed(st)
  ELSE LET r == UpdateRow(st[s.key], s, field)
       IN  [err |-> FALSE, skill |-> ScanRow("", r),
            store |-> Put(Remove(st, s.key), "", r)]

\* Update as an upsert: an absent key gets a row.
Update_upsert(st, up, s, field) ==
  IF ~up \/ (field \in {"all", "tags"} /\ ArrayValue(s.tags).null)
  THEN Failed(st)
  ELSE LET r0 == IF s.key \in DOMAIN st THEN st[s.key]
                 ELSE [name |-> "", description |-> "", logo |-> "", tags |-> <<>>]
           r == [name |-> IF field \in {"all", "name"} THEN s.name ELSE r0.name,
                 description |-> IF field \in {"all", "description"}
                                 THEN s.description ELSE r0.description,
                 logo |-> IF field \in {"all", "logo"} THEN s.logo ELSE r0.logo,
                 tags |-> IF field \in {"all", "tags"}
                          THEN ArrayValue(s.tags).arr ELSE r0.tags]
       IN  [err |-> FALSE, skill |-> ScanRow(s.key, r), store |-> Put(st, s.key, r)]

\* UPDATE skill SET ... WHERE key=$n RETURNING ...: no row when the key is
\* absent, an error when tags is set to NULL.
Update(st, up, s, field) ==
  IF \/ ~up
     \/ s.key \notin DOMAIN st
     \/ (field \in {"all", "tags"} /\ ArrayValue(s.tags).null)
  THEN Failed(st)
  ELSE LET r == UpdateRow(st[s.key], s, field)
       IN  [err |-> FALSE, skill |-> ScanRow(s.key, r), store |-> Put(st, s.key, r)]

\* ------------------------------------------------------------- handlers

One(skill) == Slice(<<skill>>)

\* fault: "none", or how the store fails the request: "query" (the statement
\* returns an error), "next" (the row cursor breaks off, getSkillsHandler only).
\* err:   the error the handler got from Query or Scan, if any.
Request(handler, src, field, key, b, fault, err, w) ==
  [handler |-> handler, src |-> src, field |-> field, key |-> key,
   body |-> b.skill, bindErr |-> b.err, fault |-> fault, err |-> err,
   resp |-> w]

Fault(up) == IF up THEN "none" ELSE "query"

NoBody == [err |-> FALSE, skill |-> ZeroSkill, w |-> Writer0]
Idle == Request("none", "", "", "", NoBody, "none", FALSE, Writer0)

NoTrack == [op |-> "none", key |-> "", sent |-> ZeroSkill]

\* A write request on key k answered with w: a create, full update or delete
\* answered 200 on a path key is remembered, any other write request on the
\* remembered key forgets it.
Track(op, k, sent, w) ==
  IF w.code = 200 /\ k \in PathKeys /\ op \in {"create", "all", "delete"}
  THEN [op |-> op, key |-> k, sent |-> sent]
  ELSE IF track.key = k THEN NoTrack ELSE track

\* func getSkillByKeyHandler(ctx *gin.Context)
getSkillByKeyHandler ==
  \E k \in PathKeys, up \in BOOLEAN :
    LET q == Select(store, up, k)
        w == IF q.err
             THEN WriteJSON(Writer0, 404, "message", "error", "Skill not found", NilSlice)
             ELSE WriteJSON(Writer0, 200, "skill", "success", "", One(q.skill))
    IN  /\ last = Idle
        /\ store' = q.store
        /\ last' = Request("get", "both", "", k, NoBody, Fault(up), q.err, w)
        /\ UNCHANGED track
        /\ UNCHANGED <<mainVars, concVars>>

\* func createSkillHandler(ctx *gin.Context)
createSkillHandler ==
  \E in \in Inputs(Docs, DocFields) :
    LET d == in[1]
        up == in[2]
        b == BindJSON(Writer0, d)
        q == Insert(store, up, b.skill)
        w == IF q.err
             THEN WriteJSON(b.w, 409, "message", "error", "Skill already exists", NilSlice)
             ELSE WriteJSON(b.w, 200, "skill", "success", "", One(q.skill))
    IN  /\ last = Idle
        /\ store' = q.store
        /\ last' = Request("create", "both", "", b.skill.key, b, Fault(up), q.err, w)
        /\ track' = Track("create", b.skill.key, b.skill, w)
        /\ UNCHANGED <<mainVars, concVars>>

UpdateMessage(field) ==
  IF field = "all" THEN "not be able to update skill"
  ELSE IF field = "name" THEN "not be able to update skill name"
  ELSE IF field = "description" THEN "not be able to update skill description"
  ELSE IF field = "logo" THEN "not be able to update skill logo"
  ELSE "not be able to update skill tags"

\* func updateSkill(ctx *gin.Context, updateField string) of src/unnamed/part_002
updateSkill(field, inputs) ==
  \E k \in PathKeys, in \in inputs :
    LET d == in[1]
        up == in[2]
        b == BindJSON(Writer0, d)
        skill == [b.skill EXCEPT !.key = k]
        q == Update(store, up, skill, field)
        w == IF q.err
             THEN WriteJSON(b.w, 400, "message", "error", UpdateMessage(field), NilSlice)
             ELSE WriteJSON(b.w, 200, "skill", "success", "", One(q.skill))
    IN  /\ last = Idle
        /\ store' = q.store
        /\ last' = Request("update", "part_002", field, k, b, Fault(up), q.err, w)
        /\ track' = Track(field, k, skill, w)
        /\ UNCHANGED <<mainVars, concVars>>

updateSkillByKeyHandler ==
  updateSkill("all", Inputs(Docs, DocFields))
updateSkillNameByKeyHandler ==
  updateSkill("name", Inputs(FieldDocs("name"), {"name"}))
updateSkillDescriptionByKeyHandler ==
  updateSkill("description", Inputs(FieldDocs("description"), {"description"}))
updateSkillLogoByKeyHandler ==
  updateSkill("logo", Inputs(FieldDocs("logo"), {"logo"}))
updateSkillTagsByKeyHandler ==
  updateSkill("tags", Inputs(FieldDocs("tags"), {"tags"}))

\* func updateSkill of src/server.go, reached by PUT only: the updated skill
\* is written without the {status, data} envelope.
updateSkillByKeyHandler_server ==
  \E k \in PathKeys, in \in Inputs(Docs, DocFields) :
    LET d == in[1]
        up == in[2]
        b == BindJSON(Writer0, d)
        skill == [b.skill EXCEPT !.key = k]
        q == Update(store, up, skill, "all")
        w == IF q.err
             THEN WriteJSON(b.w, 400, "message", "error", "not be able to update skill", NilSlice)
             ELSE WriteJSON(b.w, 200, "bare", "", "", One(q.skill))
    IN  /\ last = Idle
        /\ store' = q.store
        /\ last' = Request("update", "server.go", "all", k, b, Fault(up), q.err, w)
        /\ track' = Track("all", k, skill, w)
        /\ UNCHANGED <<mainVars, concVars>>

\* func deleteSkillByKeyHandler(ctx *gin.Context)
deleteSkillByKeyHandler ==
  \E k \in PathKeys, up \in BOOLEAN :
    LET q == Delete(store, up, k)
        w == IF q.err
             THEN WriteJSON(Writer0, 400, "message", "error", "not be able to delete skill", NilSlice)
             ELSE WriteJSON(Writer0, 200, "message", "success", "Skill deleted", NilSlice)
    IN  /\ last = Idle
        /\ store' = q.store
        /\ last' = Request("delete", "part_002", "", k, NoBody, Fault(up), q.err, w)
        /\ track' = Track("delete", k, ZeroSkill, w)
        /\ UNCHANGED <<mainVars, concVars>>

\* The orders in which SELECT ... FROM skill can return the rows of st.
Orders(st) ==
  {o \in [1..Cardinality(DOMAIN st) -> DOMAIN st] :
     \A i, j \in DOMAIN o : o[i] = o[j] => i = j}

\* for rows.Next() { rows.Scan(...); skills = append(skills, skill) }, started
\* from the slice empty0 and ended after n rows.
ScanRows(st, o, n, empty0) ==
  IF n = 0 THEN empty0 ELSE Slice([i \in 1..n |-> ScanRow(o[i], st[o[i]])])

\* func getSkillsHandler(ctx *gin.Context): DB.Query fails (nothing is written,
\* gin answers 200 without a body), or the rows are read until rows.Next()
\* is false, which is the end of the rows or a broken cursor.
getSkills(src, empty0) ==
  \E fault \in {"none", "query", "next"}, o \in Orders(store),
     n \in 0..Cardinality(DOMAIN store) :
    LET w == IF fault = "query"
             THEN Writer0
             ELSE WriteJSON(Writer0, 200, "skills", "success", "",
                            ScanRows(store, o, n, empty0))
    IN  /\ last = Idle
        /\ fault = "none" => n = Cardinality(DOMAIN store)
        /\ fault = "next" => n < Cardinality(DOMAIN store)
        /\ fault = "query" => n = 0
        /\ store' = store
        /\ last' = Request("list", src, "", "", NoBody, fault, fault = "query", w)
        /\ UNCHANGED track
        /\ UNCHANGED <<mainVars, concVars>>

\* src/unnamed/part_002: var skills = make([]Skill, 0)
getSkillsHandler == getSkills("part_002", Slice(<<>>))

\* src/server.go: var skills []Skill
getSkillsHandler_server == getSkills("server.go", NilSlice)

\* The exchange is over: the server takes the next request.
ServeNext ==
  /\ last # Idle
  /\ last' = Idle
  /\ UNCHANGED <<store, track>>
  /\ UNCHANGED <<mainVars, concVars>>

\* ------------------------------------------- requests served concurrently
\* net/http serves every connection in a goroutine of its own.  A handler reads
\* its request (BindJSON), runs its one statement through the shared DB handle
\* and writes the response; the statements of different handlers reach the
\* store in any order, and the store runs each of them atomically.

\* Most connections served at a time.
MaxConns == 2
Conns == 1..MaxConns

\* A row of the table: the key column and the other columns.
TableRow(k, r) == [key |-> k, row |-> r]
RowsOf(t, k) == {x \in t : x.key = k}

\* A statement that returns an error: no row, the table untouched.
NoRow(t) == [err |-> TRUE, skill |-> ZeroSkill, table |-> t]

\* The row a RETURNING clause hands to Scan.
Returning(hit) == LET x == CHOOSE x \in hit : TRUE IN ScanRow(x.key, x.row)

\* Insert into a table without primary key.
InsertInto_nokey(t, s) ==
  IF ArrayValue(s.tags).null
  THEN NoRow(t)
  ELSE LET x == TableRow(s.key, [name |-> s.name, description |-> s.description,
                                 logo |-> s.logo, tags |-> ArrayValue(s.tags).arr])
       IN  [err |-> FALSE, skill |-> Returning({x}), table |-> t \cup {x}]

\* INSERT INTO skill ... RETURNING ...: key is the PRIMARY KEY of the table, so
\* the store refuses a row whose key a row of the table has.
InsertInto(t, s) ==
  IF ArrayValue(s.tags).null \/ RowsOf(t, s.key) # {}
  THEN NoRow(t)
  ELSE LET x == TableRow(s.key, [name |-> s.name, description |-> s.description,
                                 logo |-> s.logo, tags |-> ArrayValue(s.tags).arr])
       IN  [err |-> FALSE, skill |-> Returning({x}), table |-> t \cup {x}]

\* Update that writes name, description and logo from the request whatever
\* the field.
UpdateSet_whole(t, s, field) ==
  LET hit == RowsOf(t, s.key)
      new == {[x EXCEPT !.row = [name |-> s.name, description |-> s.description,
                                 logo |-> s.logo,
                                 tags |-> IF field \in {"all", "tags"}
                                          THEN ArrayValue(s.tags).arr ELSE @.tags]]
                : x \in hit}
  IN  IF hit = {} \/ (field \in {"all", "tags"} /\ ArrayValue(s.tags).null)
      THEN NoRow(t)
      ELSE [err |-> FALSE, skill |-> Returning(new), table |-> (t \ hit) \cup new]

\* UPDATE skill SET ... WHERE key=$n RETURNING ...: the statement reads and
\* writes the rows of the key in one step of the store.
UpdateSet(t, s, field) ==
  LET hit == RowsOf(t, s.key)
      new == {[x EXCEPT !.row = UpdateRow(@, s, field)] : x \in hit}
  IN  IF hit = {} \/ (field \in {"all", "tags"} /\ ArrayValue(s.tags).null)
      THEN NoRow(t)
      ELSE [err |-> FALSE, skill |-> Returning(new), table |-> (t \ hit) \cup new]

\* DELETE FROM skill WHERE key=$1 RETURNING ...
DeleteFrom(t, k) ==
  LET hit == RowsOf(t, k)
  IN  IF hit = {}
      THEN NoRow(t)
      ELSE [err |-> FALSE, skill |-> Returning(hit), table |-> t \ hit]

\* The request of a connection.  phase: "idle", "bound" (the handler has read
\* the request), "written" (the statement has run and the response is
\* written).
NoRequest ==
  [handler |-> "none", field |-> "", key |-> "", body |-> ZeroSkill,
   phase |-> "idle", resp |-> Writer0]

Bound(handler, field, k, b) ==
  [handler |-> handler, field |-> field, key |-> k, body |-> b.skill,
   phase |-> "bound", resp |-> b.w]

Written(req, w) == [req EXCEPT !.phase = "written", !.resp = w]

Busy(cs) == {c \in Conns : cs[c].phase # "idle"}

\* The bodies sent by concurrent clients: well-formed objects; a POST carries
\* a key, a name or none, and an empty tags list; a PUT carries the four
\* fields; a PATCH carries a value of its field.
CreateDocs ==
  {d \in Docs : /\ ~d.syntax /\ NumBad(d) = 0
                /\ d.key.t = "val"
                /\ d.description.t = "absent" /\ d.logo.t = "absent"
                /\ d.tags = [t |-> "val", v |-> <<>>]}
PutDocs ==
  {d \in Docs : /\ ~d.syntax /\ NumBad(d) = 0
                /\ d.key.t = "absent" /\ d.name.t = "val"
                /\ d.description.t = "val" /\ d.logo.t = "val"
                /\ d.tags.t = "val" /\ d.tags.v # <<>>}
PatchDocs(f) ==
  {d \in FieldDocs(f) : /\ ~d.syntax /\ d.key.t = "absent" /\ d[f].t = "val"
                        /\ f = "tags" => d.tags.v # <<>>}
UpdateDocs(f) == IF f = "all" THEN PutDocs ELSE PatchDocs(f)

\* A connection gets a request and its handler starts.
Start(c, req) ==
  /\ conns[c].phase = "idle"
  /\ conns' = [conns EXCEPT ![c] = req]
  /\ clean' = IF Busy(conns) = {} THEN TRUE ELSE clean
  /\ base' = IF Busy(conns) = {} THEN table ELSE base
  /\ UNCHANGED table

\* createSkillHandler up to ctx.BindJSON(&skill)
CreateBind(c) ==
  \E d \in CreateDocs :
    LET b == BindJSON(Writer0, d)
    IN  /\ Start(c, Bound("create", "", b.skill.key, b))
        /\ UNCHANGED <<apiVars, mainVars>>

\* updateSkill up to skill.Key = ctx.Param("key")
UpdateBind(c) ==
  \E k \in PathKeys, f \in {"all", "name", "description", "logo", "tags"} :
    \E d \in UpdateDocs(f) :
      LET b == BindJSON(Writer0, d)
          skill == [b.skill EXCEPT !.key = k]
      IN  /\ Start(c, Bound("update", f, k, [b EXCEPT !.skill = skill]))
          /\ UNCHANGED <<apiVars, mainVars>>

\* deleteSkillByKeyHandler up to key := ctx.Param("key")
DeleteBind(c) ==
  \E k \in PathKeys :
    /\ Start(c, Bound("delete", "", k, NoBody))
    /\ UNCHANGED <<apiVars, mainVars>>

\* The statement of a handler runs and the handler writes its response.
Finished(c, q, w) ==
  /\ table' = q.table
  /\ conns' = [conns EXCEPT ![c] = Written(@, w)]
  /\ UNCHANGED <<base, clean>>

\* createSkillHandler from DB.QueryRow on
CreateQuery(c) ==
  LET req == conns[c]
      q == InsertInto(table, req.body)
      w == IF q.err
           THEN WriteJSON(req.resp, 409, "message", "error", "Skill already exists", NilSlice)
           ELSE WriteJSON(req.resp, 200, "skill", "success", "", One(q.skill))
  IN  /\ req.handler = "create"
      /\ req.phase = "bound"
      /\ Finished(c, q, w)
      /\ UNCHANGED <<apiVars, mainVars>>

\* updateSkill from DB.QueryRow on
UpdateQuery(c) ==
  LET req == conns[c]
      q == UpdateSet(table, req.body, req.field)
      w == IF q.err
           THEN WriteJSON(req.resp, 400, "message", "error", UpdateMessage(req.field), NilSlice)
           ELSE WriteJSON(req.resp, 200, "skill", "success", "", One(q.skill))
  IN  /\ req.handler = "update"
      /\ req.phase = "bound"
      /\ Finished(c, q, w)
      /\ UNCHANGED <<apiVars, mainVars>>

\* deleteSkillByKeyHandler from DB.QueryRow on
DeleteQuery(c) ==
  LET req == conns[c]
      q == DeleteFrom(table, req.key)
      w == IF q.err
           THEN WriteJSON(req.resp, 400, "message", "error", "not be able to delete skill", NilSlice)
           ELSE WriteJSON(req.resp, 200, "message", "success", "Skill deleted", NilSlice)
  IN  /\ req.handler = "delete"
      /\ req.phase = "bound"
      /\ Finished(c, q, w)
      /\ UNCHANGED <<apiVars, mainVars>>

\* The response has been sent: the connection is free for its next request.
ConnDone(c) ==
  /\ conns[c].phase = "written"
  /\ conns' = [conns EXCEPT ![c] = NoRequest]
  /\ clean' = (Busy(conns) = {c})
  /\ base' = IF Busy(conns) = {c} THEN table ELSE base
  /\ UNCHANGED table
  /\ UNCHANGED <<apiVars, mainVars>>

\* ------------------------------------------------- main and its shutdown

\* Most requests in flight at a time.
MaxActive == 3

\* context.WithTimeout(context.Background(), 3*time.Second)
Grace == 3

\* A signal is delivered: signal.NotifyContext cancels ctx.
Signal ==
  /\ mainPc # "returned"
  /\ ~signalled
  /\ signalled' = TRUE
  /\ UNCHANGED <<mainPc, goPc, srv, elapsed, shutdownErr, closedChan, dbOpen>>
  /\ UNCHANGED <<apiVars, concVars>>

\* srv.ListenAndServe() is called: it returns ErrServerClosed at once when
\* Shutdown has been called, returns the error of net.Listen when the address
\* cannot be bound, and serves otherwise.  A returned error is only logged.
ListenAndServe ==
  /\ mainPc = "ListenAndServe"
  /\ \/ /\ srv.inShutdown
        /\ mainPc' = "closedChan"
        /\ srv' = srv
     \/ /\ ~srv.inShutdown
        /\ \/ /\ mainPc' = "Serve"
              /\ srv' = [srv EXCEPT !.listener = "open"]
           \/ /\ mainPc' = "closedChan"
              /\ srv' = srv
  /\ UNCHANGED <<goPc, signalled, elapsed, shutdownErr, closedChan, dbOpen>>
  /\ UNCHANGED <<apiVars, concVars>>

\* The accept loop takes a connection and a handler starts to serve it.
Accept ==
  /\ mainPc = "Serve"
  /\ srv.listener = "open"
  /\ srv.active < MaxActive
  /\ srv' = [srv EXCEPT !.active = @ + 1]
  /\ UNCHANGED <<mainPc, goPc, signalled, elapsed, shutdownErr, closedChan, dbOpen>>
  /\ UNCHANGED <<apiVars, concVars>>

\* A handler returns: its request is no longer in flight.
Finish ==
  /\ mainPc # "returned"
  /\ srv.active > 0
  /\ srv' = [srv EXCEPT !.active = @ - 1]
  /\ UNCHANGED <<mainPc, goPc, signalled, elapsed, shutdownErr, closedChan, dbOpen>>
  /\ UNCHANGED <<apiVars, concVars>>

\* srv.Serve returns: ErrServerClosed once Shutdown has closed the listener, or
\* the error of an Accept that failed on its own.
ServeReturn ==
  /\ mainPc = "Serve"
  /\ \/ srv.listener = "closed" /\ srv' = srv
     \/ srv.listener = "open" /\ srv' = [srv EXCEPT !.listener = "closed"]
  /\ mainPc' = "closedChan"
  /\ UNCHANGED <<goPc, signalled, elapsed, shutdownErr, closedChan, dbOpen>>
  /\ UNCHANGED <<apiVars, concVars>>

\* <-ctx.Done() returns; the goroutine starts the deadline and calls
\* srv.Shutdown, which sets inShutdown and closes the listener.
ShutdownCall ==
  /\ goPc = "ctxDone"
  /\ signalled
  /\ goPc' = "Shutdown"
  /\ elapsed' = 0
  /\ srv' = [srv EXCEPT !.inShutdown = TRUE,
                        !.listener = IF @ = "open" THEN "closed" ELSE @]
  /\ UNCHANGED <<mainPc, signalled, shutdownErr, closedChan, dbOpen>>
  /\ UNCHANGED <<apiVars, concVars>>

\* A second of the deadline passes while srv.Shutdown polls.
Tick ==
  /\ goPc = "Shutdown"
  /\ elapsed < Grace
  /\ elapsed' = elapsed + 1
  /\ UNCHANGED <<mainPc, goPc, signalled, srv, shutdownErr, closedChan, dbOpen>>
  /\ UNCHANGED <<apiVars, concVars>>

\* srv.Shutdown returns, after Serve has returned: nil when no request is in
\* flight, ctx.Err() when the deadline has passed.
ShutdownReturn ==
  /\ goPc = "Shutdown"
  /\ mainPc # "Serve"
  /\ \/ srv.active = 0 /\ shutdownErr' = "nil"
     \/ srv.active > 0 /\ elapsed = Grace /\ shutdownErr' = "deadline"
  /\ goPc' = "close"
  /\ UNCHANGED <<mainPc, signalled, srv, elapsed, closedChan, dbOpen>>
  /\ UNCHANGED <<apiVars, concVars>>

\* close(closedChan)
CloseChan ==
  /\ goPc = "close"
  /\ closedChan' = TRUE
  /\ goPc' = "done"
  /\ UNCHANGED <<mainPc, signalled, srv, elapsed, shutdownErr, dbOpen>>
  /\ UNCHANGED <<apiVars, concVars>>

\* main that does not wait for closedChan.
MainReturn_nowait ==
  /\ mainPc = "closedChan"
  /\ mainPc' = "returned"
  /\ dbOpen' = FALSE
  /\ UNCHANGED <<goPc, signalled, srv, elapsed, shutdownErr, closedChan>>
  /\ UNCHANGED <<apiVars, concVars>>

\* <-closedChan returns and main returns: the deferred DB.Close() runs and the
\* process exits, which cuts off the requests still in flight.
MainReturn ==
  /\ mainPc = "closedChan"
  /\ closedChan
  /\ mainPc' = "returned"
  /\ dbOpen' = FALSE
  /\ UNCHANGED <<goPc, signalled, srv, elapsed, shutdownErr, closedChan>>
  /\ UNCHANGED <<apiVars, concVars>>

\* The process with main at pc and the goroutine waiting for ctx.Done().
InitMain(pc, listener) ==
  /\ mainPc = pc
  /\ goPc = "ctxDone"
  /\ signalled = FALSE
  /\ srv = [listener |-> listener, inShutdown |-> FALSE, active |-> 0]
  /\ elapsed = 0
  /\ shutdownErr = "none"
  /\ closedChan = FALSE
  /\ dbOpen = TRUE

InitConc ==
  /\ table = {}
  /\ conns = [c \in Conns |-> NoRequest]
  /\ base = {}
  /\ clean = TRUE

Init ==
  /\ store = <<>>
  /\ last = Idle
  /\ track = NoTrack
  /\ InitMain("Serve", "open")
  /\ InitConc

Next ==
  \/ getSkillsHandler
  \/ getSkillsHandler_server
  \/ getSkillByKeyHandler
  \/ createSkillHandler
  \/ updateSkillByKeyHandler
  \/ updateSkillByKeyHandler_server
  \/ updateSkillNameByKeyHandler
  \/ updateSkillDescriptionByKeyHandler
  \/ updateSkillLogoByKeyHandler
  \/ updateSkillTagsByKeyHandler
  \/ deleteSkillByKeyHandler
  \/ ServeNext

Spec == Init /\ [][Next]_vars

\* main from the call of srv.ListenAndServe on, with an empty table.
MainInit ==
  /\ store = <<>>
  /\ last = Idle
  /\ track = NoTrack
  /\ InitMain("ListenAndServe", "none")
  /\ InitConc

MainNext ==
  \/ Signal
  \/ ListenAndServe
  \/ Accept
  \/ Finish
  \/ ServeReturn
  \/ ShutdownCall
  \/ Tick
  \/ ShutdownReturn
  \/ CloseChan
  \/ MainReturn

\* The steps of main and of the goroutine are taken when they can be (the Go
\* scheduler runs a goroutine that is not blocked) and time passes; signals,
\* requests and failures of the listener are the environment's.
MainFairness ==
  /\ WF_vars(ListenAndServe)
  /\ WF_vars(mainPc = "Serve" /\ srv.listener = "closed" /\ ServeReturn)
  /\ WF_vars(ShutdownCall)
  /\ WF_vars(Tick)
  /\ WF_vars(ShutdownReturn)
  /\ WF_vars(CloseChan)
  /\ WF_vars(MainReturn)

\* The server with its connections served concurrently.
ConcNext ==
  \E c \in Conns :
    \/ CreateBind(c)
    \/ UpdateBind(c)
    \/ DeleteBind(c)
    \/ CreateQuery(c)
    \/ UpdateQuery(c)
    \/ DeleteQuery(c)
    \/ ConnDone(c)

ConcSpec == Init /\ [][ConcNext]_vars

MainSpec == MainInit /\ [][MainNext]_vars /\ MainFairness

\* ---------------------------------------------------------------- claims
\* Every claim is a property of the step that serves a request: store is the
\* table before the request, store' after it, last' the exchange.

\* The envelopes a client can receive.
SuccessEnvelope(skill) ==
  [written |-> TRUE, code |-> 200, kind |-> "skill", status |-> "success",
   message |-> "", data |-> Slice(<<skill>>)]
ErrorEnvelope(code, message) ==
  [written |-> TRUE, code |-> code, kind |-> "message", status |-> "error",
   message |-> message, data |-> NilSlice]

\* The row that holds the fields of a Skill.
RowOf(skill) ==
  [name |-> skill.name, description |-> skill.description, logo |-> skill.logo,
   tags |-> skill.tags.elems]

\* A body that is a record: it binds without error and carries a tags list.
IsRecord(req) == ~req.bindErr /\ ~req.body.tags.isNil

\* The property of a step that C1 states.
C1_Step ==
  /\ (/\ last'.handler = "create"
      /\ last'.fault = "none"
      /\ IsRecord(last')
      /\ last'.body.key \notin DOMAIN store)
     => /\ last'.resp = SuccessEnvelope(last'.body)
        /\ last'.body.key \in DOMAIN store'
        /\ store'[last'.body.key] = RowOf(last'.body)
  /\ (/\ last'.handler = "get"
      /\ last'.fault = "none"
      /\ track.op = "create"
      /\ track.key = last'.key)
     => last'.resp = SuccessEnvelope(track.sent)

\* C1: a POST /skills that submits a record under a key absent from the store
\* is answered 200 with the success envelope holding the submitted record, and
\* the next GET of that key, with no write request on the key in between, is
\* answered 200 with the success envelope holding the same record.
C1_CreateThenGet == [][C1_Step]_vars

\* A GET answered with a record created before, some of whose fields are not
\* the zero value.
C1_Witness ==
  /\ last.handler = "get"
  /\ last.resp.code = 200
  /\ track.op = "create"
  /\ track.key = last.key
  /\ track.sent.name = "a"
  /\ track.sent.description = ""
  /\ track.sent.tags.elems # <<>>

\* C2 as stated: a POST /skills whose key is in the store is answered 409 with
\* {status: "error", message: "Skill already exists"}, whatever the body.
C2_Original ==
  [][(last'.handler = "create" /\ last'.body.key \in DOMAIN store)
       => last'.resp = ErrorEnvelope(409, "Skill already exists")]_vars

\* C2 as amended: a POST /skills whose key is in the store is answered with
\* {status: "error", message: "Skill already exists"} and leaves the store as
\* it is; the status is 409 when the body binds without error, and the 400
\* that BindJSON has written when it does not.
C2_DuplicateCreate ==
  [][(last'.handler = "create" /\ last'.body.key \in DOMAIN store)
       => /\ last'.resp = ErrorEnvelope(IF last'.bindErr THEN 400 ELSE 409,
                                        "Skill already exists")
          /\ store' = store]_vars

\* A 409 for a body that binds and differs from the row stored under its key.
C2_Witness ==
  /\ last.handler = "create"
  /\ last.resp.code = 409
  /\ last.fault = "none"
  /\ IsRecord(last)
  /\ last.key \in DOMAIN store
  /\ store[last.key] # RowOf(last.body)

\* The property of a step that C3 states.
C3_Step ==
  (last'.handler = "update" /\ last'.resp.code = 200)
    => LET k == last'.key
           b == last'.body
           f == last'.field
       IN  /\ k \in DOMAIN store
           /\ DOMAIN store' = DOMAIN store
           /\ \A x \in DOMAIN store \ {k} : store'[x] = store[x]
           /\ f = "name" => store'[k] = [store[k] EXCEPT !.name = b.name]
           /\ f = "description"
                => store'[k] = [store[k] EXCEPT !.description = b.description]
           /\ f = "logo" => store'[k] = [store[k] EXCEPT !.logo = b.logo]
           /\ f = "tags" => /\ ~b.tags.isNil
                            /\ store'[k] = [store[k] EXCEPT !.tags = b.tags.elems]
           /\ f = "all" => ~b.tags.isNil /\ store'[k] = RowOf(b)

\* C3: an update answered 200 leaves the set of keys and every other row as
\* they are; PATCH .../actions/f sets field f of the row of the path key to the
\* body's value and leaves its three other fields, PUT sets the four fields
\* to the body's values.
C3_UpdateFrame == [][C3_Step]_vars

\* A PATCH of description answered 200 that empties the description of a row
\* whose other fields are not empty, next to another row.
C3_Witness ==
  /\ last.handler = "update"
  /\ last.field = "description"
  /\ last.resp.code = 200
  /\ "" \in DOMAIN store
  /\ last.body.description = ""
  /\ store[last.key] = [name |-> "a", description |-> "", logo |-> "a",
                        tags |-> <<"a">>]

\* The property of a step that C4 states.
C4_Step ==
  /\ (/\ last'.handler = "delete"
      /\ last'.resp.code = 200
      /\ last'.key \in DOMAIN store)
     => /\ DOMAIN store' = DOMAIN store \ {last'.key}
        /\ \A x \in DOMAIN store' : store'[x] = store[x]
  /\ (/\ last'.handler = "get"
      /\ track.op = "delete"
      /\ track.key = last'.key)
     => last'.resp.code = 404

\* C4: a DELETE /skills/k answered 200 for a key in the store removes row k
\* and leaves every other row, and the next GET /skills/k, with no write
\* request on k in between, is answered 404.
C4_DeleteThenGet == [][C4_Step]_vars

\* A GET answered 404 after the delete of its key, another row being left.
C4_Witness ==
  /\ last.handler = "get"
  /\ last.resp.code = 404
  /\ track.op = "delete"
  /\ track.key = last.key
  /\ DOMAIN store = {""}

\* The property of a step that C5 states.
C5_Step ==
  (last'.handler = "get" /\ last'.key \notin DOMAIN store)
    => /\ last'.resp = ErrorEnvelope(404, "Skill not found")
       /\ store' = store

\* C5: a GET /skills/k for a key absent from the store is answered 404 with
\* {status: "error", message: "Skill not found"} and leaves the store as it is.
C5_GetAbsent == [][C5_Step]_vars

\* A 404 for an absent key while the store answers and holds another row.
C5_Witness ==
  /\ last.handler = "get"
  /\ last.resp.code = 404
  /\ last.fault = "none"
  /\ last.key \notin DOMAIN store
  /\ DOMAIN store # {}

\* The property of a step that C6 states.
C6_Step ==
  (last'.handler = "create" /\ last'.fault = "none")
    => /\ last'.resp.code = 409 => last'.body.key \in DOMAIN store
       /\ (last'.resp.code # 200 /\ last'.body.key \notin DOMAIN store)
            => last'.resp.code = 400

\* C6 (the claim as stated, store answering): a POST /skills is answered 409
\* only when the submitted key is in the store; a create that fails for any
\* other reason is answered 400.
C6_CreateStatus == [][C6_Step]_vars

\* The message of the update routes, as the routes document it.
C7_Message(f) ==
  CASE f = "all"         -> "not be able to update skill"
    [] f = "name"        -> "not be able to update skill name"
    [] f = "description" -> "not be able to update skill description"
    [] f = "logo"        -> "not be able to update skill logo"
    [] f = "tags"        -> "not be able to update skill tags"

\* The property of a step that C7 states.
C7_Step ==
  (last'.handler = "update" /\ last'.key \notin DOMAIN store)
    => /\ last'.resp = ErrorEnvelope(400, C7_Message(last'.field))
       /\ store' = store

\* C7: a PUT /skills/k or a PATCH /skills/k/actions/f for a key absent from
\* the store is answered 400 with {status: "error", message: "not be able to
\* update skill"}, followed by the field for a PATCH, and no row is created
\* or changed.
C7_UpdateAbsent == [][C7_Step]_vars

\* A PATCH of logo with a well-formed body, refused for an absent key while
\* the store answers and holds another row.
C7_Witness ==
  /\ last.handler = "update"
  /\ last.field = "logo"
  /\ last.fault = "none"
  /\ ~last.bindErr
  /\ last.body.logo = "a"
  /\ last.resp.code = 400
  /\ last.resp.message = "not be able to update skill logo"
  /\ last.key \notin DOMAIN store
  /\ DOMAIN store # {}

\* The property of a step that C8 states.
C8_Step ==
  /\ (/\ last'.handler = "update"
      /\ last'.field = "all"
      /\ last'.fault = "none"
      /\ IsRecord(last')
      /\ last'.key \in DOMAIN store)
     => last'.resp = SuccessEnvelope([last'.body EXCEPT !.key = last'.key])
  /\ (/\ last'.handler = "get"
      /\ last'.fault = "none"
      /\ track.op = "all"
      /\ track.key = last'.key)
     => last'.resp = SuccessEnvelope(track.sent)

\* C8 (the claim as stated): a PUT /skills/k that submits a record for a key
\* in the store is answered 200 with the success envelope {status: "success",
\* data: r}, r holding key k and the body's name, description, logo and tags,
\* and the next GET /skills/k, with no write request on k in between, is
\* answered with data r.
C8_FullUpdate == [][C8_Step]_vars

\* The Skill that a row under key k is read as.
SkillOf(k, row) ==
  [key |-> k, name |-> row.name, description |-> row.description,
   logo |-> row.logo, tags |-> Slice(row.tags)]

\* The property of a step that C9 states.
C9_Step ==
  (last'.handler = "list" /\ last'.fault = "none")
    => LET data == last'.resp.data
       IN  /\ last'.resp.code = 200
           /\ last'.resp.kind = "skills"
           /\ last'.resp.status = "success"
           /\ ~data.isNil
           /\ Len(data.elems) = Cardinality(DOMAIN store)
           /\ \A k \in DOMAIN store :
                \E i \in 1..Len(data.elems) : data.elems[i] = SkillOf(k, store[k])

\* C9 (the claim as stated, store answering): GET /skills is answered 200
\* with status "success" and data a list that holds the record of every key
\* of the store once and nothing else; the list of an empty store is empty,
\* not null.
C9_List == [][C9_Step]_vars

\* The fixed message of each route that has one.
C10_Message(req) ==
  CASE req.handler = "get"    -> "Skill not found"
    [] req.handler = "create" -> "Skill already exists"
    [] req.handler = "update" -> C7_Message(req.field)
    [] req.handler = "delete" -> "not be able to delete skill"

\* The property of a step that C10 states.
C10_Step ==
  (last'.handler # "none" /\ (last'.err \/ last'.fault # "none"))
    => /\ last'.resp.kind = "message"
       /\ last'.resp.status = "error"
       /\ last'.handler # "list" => last'.resp.message = C10_Message(last')

\* C10 (the claim as stated): a request whose store query fails, or whose
\* result cannot be read to its end, is answered with the envelope
\* {status: "error", message: m}, m the fixed message of the route.
C10_ErrorEnvelope == [][C10_Step]_vars

\* The property of a step that C13 states.
C13_Step ==
  (last'.handler \in {"create", "update", "delete"}
     /\ last'.resp.code \in {400, 404, 409})
    => store' = store

\* C13 (the claim as stated): a create, update or delete request answered with
\* status 400, 404 or 409, a request whose body BindJSON has refused with 400
\* included, leaves the store as it was before the request.
C13_ErrorLeavesStore == [][C13_Step]_vars

\* The property of a step that C14 states.
C14_Step ==
  /\ last'.handler = "update"
       => /\ DOMAIN store' = DOMAIN store
          /\ \A x \in DOMAIN store \ {last'.key} : store'[x] = store[x]
  /\ DOMAIN store' # DOMAIN store
       => \/ /\ last'.handler = "create"
             /\ ~last'.err
             /\ last'.body.key \notin DOMAIN store
             /\ DOMAIN store' = DOMAIN store \cup {last'.body.key}
          \/ /\ last'.handler = "delete"
             /\ ~last'.err
             /\ last'.key \in DOMAIN store
             /\ DOMAIN store' = DOMAIN store \ {last'.key}

C16_Deleted ==
  [written |-> TRUE, code |-> 200, kind |-> "message", status |-> "success",
   message |-> "Skill deleted", data |-> NilSlice]

\* The property of a step that C16 states.
C16_Step ==
  /\ (last'.handler = "delete" /\ last'.key \notin DOMAIN store)
       => /\ last'.resp = ErrorEnvelope(400, "not be able to delete skill")
          /\ store' = store
  /\ (last'.handler = "delete" /\ last'.fault = "none" /\ last'.key \in DOMAIN store)
       => last'.resp = C16_Deleted
  /\ (last'.handler = "delete" /\ track.op = "delete" /\ track.key = last'.key)
       => last'.resp = ErrorEnvelope(400, "not be able to delete skill")

\* C16: a DELETE /skills/k for a key absent from the store is answered 400 with
\* {status: "error", message: "not be able to delete skill"} and leaves the
\* store as it is; a DELETE of a key in the store is answered 200 with
\* {status: "success", message: "Skill deleted"}, and a second DELETE of that
\* key, with no write request on it in between, is answered 400.
C16_DeleteAbsent == [][C16_Step]_vars

\* A DELETE refused for an absent key while the store answers and holds
\* another row.
C16_Witness ==
  /\ last.handler = "delete"
  /\ last.fault = "none"
  /\ last.resp = ErrorEnvelope(400, "not be able to delete skill")
  /\ last.key \notin DOMAIN store
  /\ DOMAIN store # {}

\* POST requests of key k served together: every request accepted since no
\* request was in flight is a POST of k, and all of them are answered.
C11_Batch(k) ==
  /\ clean
  /\ Cardinality(Busy(conns)) >= 2
  /\ \A c \in Busy(conns) : /\ conns[c].handler = "create"
                            /\ conns[c].key = k
                            /\ conns[c].phase = "written"

\* C11: in every state reached by concurrently served create, update and
\* delete requests no two rows of the table have the same key; and when
\* several POST /skills of a key absent from the table are served together,
\* one of them is answered 200 with its record, every other one is answered
\* 409 "Skill already exists", and the row of the key is the record of the
\* request answered 200.
C11_PrimaryKey ==
  /\ \A x, y \in table : x.key = y.key => x = y
  /\ \A k \in Keys :
       (C11_Batch(k) /\ RowsOf(base, k) = {})
         => \E c \in Busy(conns) :
              /\ conns[c].resp = SuccessEnvelope(conns[c].body)
              /\ \A o \in Busy(conns) \ {c} :
                   conns[o].resp = ErrorEnvelope(409, "Skill already exists")
              /\ RowsOf(table, k) = {TableRow(k, RowOf(conns[c].body))}

\* Two POST of an absent key with different records served together, the one
\* of the second connection answered 200.
C11_Witness ==
  /\ C11_Batch("go")
  /\ RowsOf(base, "go") = {}
  /\ conns[1].body # conns[2].body
  /\ conns[1].resp.code = 409
  /\ conns[2].resp.code = 200

\* The columns a single-field update can target.
C15_Fields == {"name", "description", "logo", "tags"}

\* PATCH requests of key k served together, each on a field of its own: every
\* request accepted since no request was in flight is one of them, and all of
\* them are answered.
C15_Batch(k) ==
  /\ clean
  /\ Cardinality(Busy(conns)) >= 2
  /\ \A c \in Busy(conns) : /\ conns[c].handler = "update"
                            /\ conns[c].field \in C15_Fields
                            /\ conns[c].key = k
                            /\ conns[c].phase = "written"
  /\ \A c, o \in Busy(conns) : conns[c].field = conns[o].field => c = o

\* C15: when PATCH requests on different fields of a key that is in the table
\* are served together, in any interleaving, each is answered 200 and the row
\* of the key afterwards has the value of every request in its field and the
\* values it had before in the fields that no request targets.
C15_NoLostUpdate ==
  \A k \in PathKeys :
    (C15_Batch(k) /\ RowsOf(base, k) # {})
      => /\ \A c \in Busy(conns) : /\ conns[c].resp.code = 200
                                   /\ conns[c].resp.status = "success"
         /\ \E x \in table, x0 \in base :
              /\ RowsOf(table, k) = {x}
              /\ RowsOf(base, k) = {x0}
              /\ \A c \in Busy(conns) :
                   x.row[conns[c].field] = RowOf(conns[c].body)[conns[c].field]
              /\ \A f \in C15_Fields \ {conns[c].field : c \in Busy(conns)} :
                   x.row[f] = x0.row[f]

\* A PATCH of name and a PATCH of tags served together on a row whose name and
\* tags were empty and whose description was not.
C15_Witness ==
  /\ C15_Batch("go")
  /\ {conns[c].field : c \in Busy(conns)} = {"name", "tags"}
  /\ \E x0 \in base : /\ x0.key = "go"
                      /\ x0.row.name = ""
                      /\ x0.row.tags = <<>>
                      /\ x0.row.description = "a"
  /\ \E x \in table : x.key = "go" /\ x.row.name = "a" /\ x.row.tags = <<"a">>

\* The states of a shutdown that C12 allows.
C12_Safe ==
  /\ goPc # "ctxDone" => /\ signalled
                         /\ srv.inShutdown
                         /\ srv.listener # "open"
  /\ elapsed <= Grace
  /\ shutdownErr = "deadline" => elapsed = Grace
  /\ shutdownErr = "nil" => srv.active = 0
  /\ dbOpen <=> mainPc # "returned"
  /\ mainPc = "returned" => /\ goPc = "done"
                            /\ closedChan
                            /\ shutdownErr # "none"

\* Once srv.Shutdown has been called no request is accepted.
C12_Step == goPc # "ctxDone" => srv'.active <= srv.active

\* C12: after a signal the goroutine calls srv.Shutdown under a deadline of
\* Grace seconds; from then on no request is accepted; Shutdown returns nil
\* with no request in flight or the deadline error when the Grace seconds have
\* passed; main returns and closes the database handle only after Shutdown
\* has returned and closedChan is closed; and main does return after a signal.
C12_GracefulShutdown ==
  /\ []C12_Safe
  /\ [][C12_Step]_vars
  /\ (signalled ~> mainPc = "returned")

\* main has returned after a shutdown that ran into its deadline with
\* requests still in flight.
C12_Witness ==
  /\ mainPc = "returned"
  /\ ~dbOpen
  /\ shutdownErr = "deadline"
  /\ elapsed = Grace
  /\ srv.active > 0

\* C17 (the claim as stated): whenever srv.ListenAndServe has returned in
\* main, main eventually returns.
C17_Termination == (mainPc = "closedChan") ~> (mainPc = "returned")

====
